---- MODULE Spec2Model ----
(***************************************************************************)
(* Model of purge-dynamodb-table/index.ts: main, purgeTable, getTableKeys  *)
(* and scanSegment, run against a DynamoDB table.  One step of the model   *)
(* is one turn of the Node.js event loop: the code that runs from the      *)
(* resumption of an await (a store response or a timer) up to the next     *)
(* await, including any promise settlement it causes.                      *)
(***************************************************************************)
EXTENDS Integers, Sequences, FiniteSets, TLC

\* ---- bounds of the model -------------------------------------------------
MaxKeys == 2
MaxSegments == 2

\* ---- program constants (index.ts:35-38) ----------------------------------
SCAN_LIMIT == 100
MAX_RETRIES == 5
BATCH_SIZE == 25
BACKOFF_BASE_MS == 100

Keys == 1..MaxKeys
Segments == 0..(MaxSegments - 1)

VARIABLES
  phase,        \* position of main / purgeTable
  responses,    \* answers collected by prompts(); confirmInput is what the
                \* user entered at the confirm prompt
  describeResp, \* outcome of the DescribeTable call
  table,        \* keys currently stored in the table
  tableAtStart, \* keys stored when the run began
  stats,        \* PurgeStats: scanned, deleted
  progressInterval, \* TRUE while the setInterval reporter is armed
  lastReport,   \* whether a progress line has been printed, and the phase
                \* in which the latest one was
  summary,      \* what the final summary printed
  exitCode,     \* argument of process.exit, -1 while none was called
  cacheSaved,   \* TRUE once saveLastChoices ran
  workers,      \* one record per scanSegment invocation; credited, throttled
                \* and lastBatch describe the current batch and the batch
                \* whose retry loop the worker's latest step ended; added is
                \* the total the worker has added to stats.deleted, scans
                \* the number of Scan calls it has sent, batches the
                \* batches cut so far from the current page, attempts the
                \* BatchWriteItem calls sent for the current batch
  issued,       \* kinds of store calls sent so far
  observed      \* per key, the workers whose scan pages returned it

vars == <<phase, responses, describeResp, table, tableAtStart, stats,
          progressInterval, lastReport, summary, exitCode, cacheSaved,
          workers, issued, observed>>

Min(a, b) == IF a < b THEN a ELSE b

MinOf(S) == CHOOSE m \in S : \A x \in S : m <= x

RECURSIVE SortedSeq(_)
SortedSeq(S) == IF S = {} THEN <<>>
                ELSE <<MinOf(S)>> \o SortedSeq(S \ {MinOf(S)})

Range(s) == {s[j] : j \in 1..Len(s)}

RECURSIVE Pow2(_)
Pow2(n) == IF n = 0 THEN 1 ELSE 2 * Pow2(n - 1)

NoRequest == [kind |-> "none"]
NoResponse == [Items |-> <<>>, LastEvaluatedKey |-> 0]
NoBatch == [size |-> 0, credited |-> 0, remaining |-> 0, retries |-> 0,
            throttled |-> FALSE, attempts |-> 0]
NoSummary == [printed |-> FALSE]
NoReport == [printed |-> FALSE]

\* ---- the store ------------------------------------------------------------
\* Segment of the hash space a key belongs to, for a given TotalSegments.
SegmentOf(k, total) == k % total

\* Possible answers of a Scan call: the next keys of the segment after the
\* cursor, at most Limit of them; LastEvaluatedKey is absent (0) only when
\* the segment is exhausted, and may still be present on the last page.
StoreScan(tbl, req) ==
  LET remaining == {k \in tbl : SegmentOf(k, req.TotalSegments) = req.Segment
                                /\ k > req.ExclusiveStartKey}
      all == SortedSeq(remaining)
      sizes == IF remaining = {} THEN {0}
               ELSE 1..Min(req.Limit, Len(all))
  IN UNION { LET items == SubSeq(all, 1, n)
                 last == IF n = 0 THEN 0 ELSE items[n]
             IN IF n < Len(all)
                THEN {[Items |-> items, LastEvaluatedKey |-> last]}
                ELSE {[Items |-> items, LastEvaluatedKey |-> 0],
                      [Items |-> items, LastEvaluatedKey |-> last]}
           : n \in sizes }

\* ---- scanSegment ----------------------------------------------------------
\* ScanCommand whose Segment is not the worker's own.
ScanRequestSegmentZero(segment, totalSegments, lastEvaluatedKey) ==
  [kind |-> "scan", Segment |-> 0, TotalSegments |-> totalSegments,
   ExclusiveStartKey |-> lastEvaluatedKey, Limit |-> SCAN_LIMIT]

\* ScanCommand without ExclusiveStartKey.
ScanRequestNoCursor(segment, totalSegments, lastEvaluatedKey) ==
  [kind |-> "scan", Segment |-> segment, TotalSegments |-> totalSegments,
   ExclusiveStartKey |-> 0, Limit |-> SCAN_LIMIT]

\* The ScanCommand built at the top of the do-while loop.
ScanRequest(segment, totalSegments, lastEvaluatedKey) ==
  [kind |-> "scan", Segment |-> segment, TotalSegments |-> totalSegments,
   ExclusiveStartKey |-> lastEvaluatedKey, Limit |-> SCAN_LIMIT]

\* Delay computed from the retry count before its increment.
BackoffBeforeIncrement(retries) == Pow2(retries - 1) * BACKOFF_BASE_MS

\* Delay of the setTimeout after retries++.
Backoff(retries) == Pow2(retries) * BACKOFF_BASE_MS

\* error.name === "ProvisionedThroughputExceededException"
IsRetryable(name) == name = "ProvisionedThroughputExceededException"

\* Amount added to stats.deleted after a BatchWriteItem response.
DeletedIncrement(deleteRequests, unprocessed) ==
  Len(deleteRequests) - Cardinality(unprocessed)

\* scanResponse.Items?.length || 1
ScannedIncrementOrOne(items) == IF Len(items) = 0 THEN 1 ELSE Len(items)

\* scanResponse.Items?.length || 0
ScannedIncrement(items) == Len(items)

\* stats.scanned += scanResponse.Items?.length || 0
AddScanned(st, n) == [st EXCEPT !.scanned = @ + n]

\* stats.deleted = ... : an assignment in place of the +=.
AssignDeleted(st, n) == [st EXCEPT !.deleted = n]

\* stats.deleted += deleteRequests.length - unprocessed
AddDeleted(st, n) == [st EXCEPT !.deleted = @ + n]

\* retries <= MAX_RETRIES: one attempt more than the budget.
RetryLoopContinuesOneMore(unprocessedItems, retries) ==
  unprocessedItems # {} /\ retries <= MAX_RETRIES

\* Condition of the while loop around BatchWriteItem.
RetryLoopContinues(unprocessedItems, retries) ==
  unprocessedItems # {} /\ retries < MAX_RETRIES

IdleWorker ==
  [pc |-> "idle", segment |-> 0, totalSegments |-> 1, lastEvaluatedKey |-> 0,
   scanResponse |-> NoResponse, i |-> 0, deleteRequests |-> <<>>,
   unprocessedItems |-> {}, retries |-> 0, wait |-> 0, request |-> NoRequest,
   credited |-> 0, throttled |-> FALSE, lastBatch |-> NoBatch,
   error |-> "none", added |-> 0, scans |-> 0, batches |-> <<>>,
   attempts |-> 0]

\* client.send(scanCommand): the worker awaits the page.
SendScan(r) ==
  [r EXCEPT !.pc = "scanWait", !.scans = @ + 1,
            !.request = ScanRequest(r.segment, r.totalSegments, r.lastEvaluatedKey)]

\* client.send(batchCommand) with RequestItems = unprocessedItems.
SendDelete(r) ==
  [r EXCEPT !.pc = "delWait", !.wait = 0, !.attempts = @ + 1,
            !.request = [kind |-> "delete", keys |-> r.unprocessedItems]]

\* lastEvaluatedKey = scanResponse.LastEvaluatedKey; while (lastEvaluatedKey)
AfterPage(r) ==
  LET r1 == [r EXCEPT !.lastEvaluatedKey = r.scanResponse.LastEvaluatedKey,
                      !.request = NoRequest, !.wait = 0]
  IN IF r1.lastEvaluatedKey # 0 THEN SendScan(r1)
     ELSE [r1 EXCEPT !.pc = "done"]

\* scanResponse.Items.slice(i, i + BATCH_SIZE + 1): one item too many.
BatchSliceOneMore(items, j) ==
  SubSeq(items, j + 1, Min(j + BATCH_SIZE + 1, Len(items)))

\* scanResponse.Items.slice(i, i + BATCH_SIZE)
BatchSlice(items, j) == SubSeq(items, j + 1, Min(j + BATCH_SIZE, Len(items)))

\* Body of the for loop for the batch at offset j, up to its first send.
StartBatch(r, j) ==
  LET batch == BatchSlice(r.scanResponse.Items, j)
      r1 == [r EXCEPT !.i = j, !.deleteRequests = batch,
                      !.unprocessedItems = Range(batch), !.retries = 0,
                      !.credited = 0, !.throttled = FALSE, !.attempts = 0,
                      !.batches = Append(@, batch)]
  IN SendDelete(r1)

\* The end of the retry loop with a throw when keys are left unprocessed.
AfterBatchThrowsWhenExhausted(r) ==
  LET r1 == [r EXCEPT !.lastBatch =
                 [size |-> Len(r.deleteRequests), credited |-> r.credited,
                  remaining |-> Cardinality(r.unprocessedItems),
                  retries |-> r.retries, throttled |-> r.throttled,
                  attempts |-> r.attempts]]
      j == r.i + BATCH_SIZE
  IN IF r.unprocessedItems # {}
     THEN [r1 EXCEPT !.pc = "failed", !.error = "RetryBudgetExhausted"]
     ELSE IF j < Len(r.scanResponse.Items) THEN StartBatch(r1, j)
     ELSE AfterPage(r1)

\* The retry loop of the current batch has ended: i += BATCH_SIZE.
AfterBatch(r) ==
  LET r1 == [r EXCEPT !.lastBatch =
                 [size |-> Len(r.deleteRequests), credited |-> r.credited,
                  remaining |-> Cardinality(r.unprocessedItems),
                  retries |-> r.retries, throttled |-> r.throttled,
                  attempts |-> r.attempts]]
      j == r.i + BATCH_SIZE
  IN IF j < Len(r.scanResponse.Items) THEN StartBatch(r1, j) ELSE AfterPage(r1)

\* Re-evaluation of the while condition after an attempt.
LoopHead(r) ==
  IF RetryLoopContinues(r.unprocessedItems, r.retries)
  THEN SendDelete(r) ELSE AfterBatch(r)

\* unprocessedItems = { [tableName]: deleteRequests } again on a retry.
ResubmitWholeBatch(deleteRequests, unprocessed) == Range(deleteRequests)

\* unprocessedItems = batchResponse.UnprocessedItems
ResubmitSet(deleteRequests, unprocessed) == unprocessed

\* const scanResponse = await client.send(scanCommand)
PageReceived(r, resp) ==
  [r EXCEPT !.scanResponse = resp, !.request = NoRequest,
            !.lastBatch = NoBatch, !.batches = <<>>]

\* The code after a BatchWriteItem response with the unprocessed keys u, up
\* to the next await.
OnBatchResponse(r, u) ==
  LET add == DeletedIncrement(r.deleteRequests, u)
      r1 == [r EXCEPT !.credited = @ + add, !.added = @ + add,
                      !.request = NoRequest, !.lastBatch = NoBatch]
  IN IF u # {}
     THEN [r1 EXCEPT !.unprocessedItems = ResubmitSet(r.deleteRequests, u),
                     !.retries = @ + 1,
                     !.wait = Backoff(r.retries + 1),
                     !.pc = "sleep"]
     ELSE LoopHead([r1 EXCEPT !.unprocessedItems = {}])

\* The catch block after a BatchWriteItem call threw the error called name.
OnBatchError(r, name) ==
  LET r1 == [r EXCEPT !.request = NoRequest, !.lastBatch = NoBatch]
  IN IF IsRetryable(name)
     THEN [r1 EXCEPT !.retries = @ + 1,
                     !.throttled = TRUE,
                     !.wait = Backoff(r.retries + 1),
                     !.pc = "sleep"]
     ELSE [r1 EXCEPT !.pc = "failed", !.error = name]

\* ---- purgeTable / main ----------------------------------------------------
\* purgeTable without the dry-run return.
IsDryRunIgnored(options) == FALSE

\* if (dryRun) { ...; return; }
IsDryRun(options) == options.dryRun

\* getTableKeys without the KeySchema check: only a failed send throws.
GetTableKeysThrowsOnSendOnly(resp) == resp = "ResourceNotFoundException"

\* if (!response.Table?.KeySchema) throw, or the send itself throws.
GetTableKeysThrows(resp) == resp # "ok"

\* for (let segment = 1; ...): the loop skips segment 0.
SpawnedSegmentsFromOne(n) == 1..(n - 1)

\* for (let segment = 0; segment < parallelSegments; segment++)
SpawnedSegments(n) == 0..(n - 1)

\* What the user enters at the last prompt: nothing on a dry run (the prompt
\* has type null), otherwise the y or n of a "confirm" prompt.
ConfirmInput(dryRun, confirm) ==
  IF dryRun THEN "" ELSE IF confirm THEN "y" ELSE "n"

\* main without the early return of a declined purge.
PurgeDeclinedNever(resp) == FALSE

\* if (!responses.dryRun && !responses.confirm) return;
PurgeDeclined(resp) == ~resp.dryRun /\ ~resp.confirm

\* Promise.allSettled-like join: rejects only once every worker has settled.
PromiseAllSettledRejected(ws, n) ==
  /\ \E w \in 0..(n - 1) : ws[w].pc = "failed"
  /\ \A w \in 0..(n - 1) : ws[w].pc \in {"done", "failed"}

\* await Promise.all(promises): rejects as soon as one promise rejects.
PromiseAllRejected(ws, n) == \E w \in 0..(n - 1) : ws[w].pc = "failed"

\* Promise.any-like join: resolves as soon as one worker is done.
PromiseAnyResolved(ws, n) == \E w \in 0..(n - 1) : ws[w].pc = "done"

\* await Promise.all(promises): resolves once every promise has resolved.
PromiseAllResolved(ws, n) == \A w \in 0..(n - 1) : ws[w].pc = "done"

\* purgeTable without the finally block: the interval stays armed.
IntervalAfterJoinNotCleared(armed) == armed

\* try { await Promise.all(promises) } finally { clearInterval(progressInterval) }
IntervalAfterJoin(armed) == FALSE

CallsOf(ws) ==
  (IF \E w \in Segments : ws[w].pc = "scanWait" THEN {"scan"} ELSE {}) \cup
  (IF \E w \in Segments : ws[w].pc = "delWait" THEN {"delete"} ELSE {})

\* What follows a worker step inside purgeTable and main: the rejection of
\* Promise.all reaches main's catch (process.exit(1)); its resolution prints
\* the summary and saves the choices.
Settle(ws, st) ==
  /\ workers' = ws
  /\ stats' = st
  /\ issued' = issued \cup CallsOf(ws)
  /\ IF PromiseAllRejected(ws, responses.parallelSegments)
     THEN /\ phase' = "Exited"
          /\ exitCode' = 1
          /\ progressInterval' = IntervalAfterJoin(progressInterval)
          /\ UNCHANGED <<summary, cacheSaved>>
     ELSE IF PromiseAllResolved(ws, responses.parallelSegments)
     THEN /\ phase' = "Completed"
          /\ progressInterval' = IntervalAfterJoin(progressInterval)
          /\ summary' = [printed |-> TRUE, deleted |-> st.deleted]
          /\ cacheSaved' = TRUE
          /\ UNCHANGED exitCode
     ELSE UNCHANGED <<phase, exitCode, progressInterval, summary, cacheSaved>>

Init ==
  /\ phase = "Prompt"
  /\ responses = [dryRun |-> FALSE, confirm |-> FALSE, parallelSegments |-> 1,
                  tableName |-> "orders", confirmInput |-> ""]
  /\ describeResp = "none"
  /\ \E n \in 0..MaxKeys : table = 1..n
  /\ tableAtStart = table
  /\ stats = [scanned |-> 0, deleted |-> 0]
  /\ progressInterval = FALSE
  /\ lastReport = NoReport
  /\ summary = NoSummary
  /\ exitCode = -1
  /\ cacheSaved = FALSE
  /\ workers = [w \in Segments |-> IdleWorker]
  /\ issued = {}
  /\ observed = [k \in Keys |-> <<>>]

\* main: prompts() answered; either the purge is declined or the client is
\* created and purgeTable sends DescribeTable.
Prompts ==
  /\ phase = "Prompt"
  /\ \E d \in BOOLEAN, c \in BOOLEAN, n \in 1..MaxSegments :
       /\ d => ~c      \* the confirm prompt is skipped on a dry run
       /\ responses' = [dryRun |-> d, confirm |-> c, parallelSegments |-> n,
                        tableName |-> "orders",
                        confirmInput |-> ConfirmInput(d, c)]
       /\ IF PurgeDeclined(responses')
          THEN /\ phase' = "Declined"
               /\ UNCHANGED issued
          ELSE /\ phase' = "Describe"
               /\ issued' = issued \cup {"describe"}
  /\ UNCHANGED <<describeResp, table, tableAtStart, stats, progressInterval,
                 lastReport, summary, exitCode, cacheSaved, workers, observed>>

\* onCancel of prompts(): process.exit(0).
PromptCancel ==
  /\ phase = "Prompt"
  /\ phase' = "Exited"
  /\ exitCode' = 0
  /\ UNCHANGED <<responses, describeResp, table, tableAtStart, stats,
                 progressInterval, lastReport, summary, cacheSaved, workers,
                 issued, observed>>

\* getTableKeys returns or throws; purgeTable then returns on a dry run, or
\* creates the stats, arms the reporter and calls scanSegment for every
\* segment (each runs up to its first await, the first Scan).
Describe ==
  /\ phase = "Describe"
  /\ \E resp \in {"ok", "noKeySchema", "ResourceNotFoundException"} :
       /\ describeResp' = resp
       /\ IF GetTableKeysThrows(resp)
          THEN /\ phase' = "Exited"
               /\ exitCode' = 1
               /\ UNCHANGED <<progressInterval, cacheSaved, workers, issued>>
          ELSE IF IsDryRun(responses)
          THEN /\ phase' = "DryRunReported"
               /\ cacheSaved' = TRUE
               /\ UNCHANGED <<exitCode, progressInterval, workers, issued>>
          ELSE /\ phase' = "Running"
               /\ progressInterval' = TRUE
               /\ workers' = [w \in Segments |->
                     IF w \in SpawnedSegments(responses.parallelSegments)
                     THEN SendScan([IdleWorker EXCEPT !.segment = w,
                              !.totalSegments = responses.parallelSegments])
                     ELSE IdleWorker]
               /\ issued' = issued \cup CallsOf(workers')
               /\ UNCHANGED <<exitCode, cacheSaved>>
  /\ UNCHANGED <<responses, table, tableAtStart, stats, lastReport, summary,
                 observed>>

\* A Scan page arrives: stats.scanned += Items.length, then the first batch
\* of the page is sent, or the next page is requested, or the worker ends.
ScanRecv(w) ==
  /\ phase = "Running"
  /\ workers[w].pc = "scanWait"
  /\ \E resp \in StoreScan(table, workers[w].request) :
       LET r == PageReceived(workers[w], resp)
           r2 == IF Len(resp.Items) > 0 THEN StartBatch(r, 0) ELSE AfterPage(r)
       IN /\ observed' = [k \in DOMAIN observed |->
                 IF k \in Range(resp.Items) THEN Append(observed[k], w)
                 ELSE observed[k]]
          /\ Settle([workers EXCEPT ![w] = r2],
                    AddScanned(stats, ScannedIncrement(resp.Items)))
  /\ UNCHANGED <<responses, describeResp, table, tableAtStart, lastReport>>

\* The Scan call throws: scanSegment has no handler around it.
ScanFail(w) ==
  /\ phase = "Running"
  /\ workers[w].pc = "scanWait"
  /\ Settle([workers EXCEPT ![w] = [@ EXCEPT !.pc = "failed", !.request = NoRequest,
                                              !.error = "InternalServerError"]],
            stats)
  /\ UNCHANGED <<responses, describeResp, table, tableAtStart, lastReport,
                 observed>>

\* A BatchWriteItem response arrives with the unprocessed keys u; the store
\* has removed the other submitted keys.
DeleteResponse(w, u) ==
  /\ phase = "Running"
  /\ workers[w].pc = "delWait"
  /\ u \subseteq workers[w].request.keys
  /\ table' = table \ (workers[w].request.keys \ u)
  /\ Settle([workers EXCEPT ![w] = OnBatchResponse(workers[w], u)],
            AddDeleted(stats, DeletedIncrement(workers[w].deleteRequests, u)))
  /\ UNCHANGED <<responses, describeResp, tableAtStart, lastReport, observed>>

DeleteRecv(w) ==
  /\ workers[w].pc = "delWait"
  /\ \E u \in SUBSET workers[w].request.keys : DeleteResponse(w, u)

\* The BatchWriteItem call throws: a throttling error is retried after the
\* backoff, any other error is rethrown.
DeleteThrow(w) ==
  /\ phase = "Running"
  /\ workers[w].pc = "delWait"
  /\ \E name \in {"ProvisionedThroughputExceededException", "ValidationException"} :
       Settle([workers EXCEPT ![w] = OnBatchError(workers[w], name)], stats)
  /\ UNCHANGED <<responses, describeResp, table, tableAtStart, lastReport,
                 observed>>

\* The backoff timer fires: the while condition is evaluated again.
BackoffDone(w) ==
  /\ phase = "Running"
  /\ workers[w].pc = "sleep"
  /\ Settle([workers EXCEPT ![w] =
               LoopHead([workers[w] EXCEPT !.lastBatch = NoBatch])], stats)
  /\ UNCHANGED <<responses, describeResp, table, tableAtStart, lastReport,
                 observed>>

\* The setInterval callback: prints the counters once something was scanned.
Tick ==
  /\ progressInterval
  /\ stats.scanned # 0
  /\ lastReport' = [printed |-> TRUE, during |-> phase]
  /\ UNCHANGED <<phase, responses, describeResp, table, tableAtStart, stats,
                 progressInterval, summary, exitCode, cacheSaved, workers,
                 issued, observed>>

\* SIGINT while the purge runs: index.ts installs no handler, so the process
\* is terminated at once.
Interrupt ==
  /\ phase \in {"Describe", "Running"}
  /\ phase' = "Killed"
  /\ progressInterval' = FALSE
  /\ UNCHANGED <<responses, describeResp, table, tableAtStart, stats,
                 lastReport, summary, exitCode, cacheSaved, workers, issued,
                 observed>>

Next ==
  \/ Prompts
  \/ PromptCancel
  \/ Describe
  \/ \E w \in Segments : ScanRecv(w)
  \/ \E w \in Segments : ScanFail(w)
  \/ \E w \in Segments : DeleteRecv(w)
  \/ \E w \in Segments : DeleteThrow(w)
  \/ \E w \in Segments : BackoffDone(w)
  \/ Tick
  \/ Interrupt

Spec == Init /\ [][Next]_vars

\* The steps of the worker of segment w: the outcome of its pending store
\* call, or the end of its backoff timer.
WorkerStep(w) ==
  \/ ScanRecv(w)
  \/ ScanFail(w)
  \/ DeleteRecv(w)
  \/ DeleteThrow(w)
  \/ BackoffDone(w)

\* Every awaited store call settles and every setTimeout fires.
LiveSpec == Spec /\ \A w \in Segments : WF_vars(WorkerStep(w))

\* ---- one page of up to SCAN_LIMIT items ------------------------------------
\* The state of a one-segment purge whose first Scan has just returned the
\* whole table, n <= SCAN_LIMIT items, in one page, with or without a
\* cursor: the first batch is out.
SplitInit ==
  \E n \in 1..SCAN_LIMIT :
  \E lek \in {0, n} :
    LET r0 == SendScan([IdleWorker EXCEPT !.segment = 0, !.totalSegments = 1])
        resp == [Items |-> SortedSeq(1..n), LastEvaluatedKey |-> lek]
    IN
    /\ resp \in StoreScan(1..n, r0.request)
    /\ phase = "Running"
    /\ responses = [dryRun |-> FALSE, confirm |-> TRUE, parallelSegments |-> 1,
                    tableName |-> "orders", confirmInput |-> "y"]
    /\ describeResp = "ok"
    /\ table = 1..n
    /\ tableAtStart = table
    /\ stats = AddScanned([scanned |-> 0, deleted |-> 0],
                          ScannedIncrement(resp.Items))
    /\ progressInterval = TRUE
    /\ lastReport = NoReport
    /\ summary = NoSummary
    /\ exitCode = -1
    /\ cacheSaved = FALSE
    /\ workers = [w \in Segments |->
                    IF w = 0 THEN StartBatch(PageReceived(r0, resp), 0)
                    ELSE IdleWorker]
    /\ issued = {"describe", "scan", "delete"}
    /\ observed = [k \in 1..n |-> <<0>>]

\* The batches of the page are deleted one after the other; a call removes
\* all its keys, or returns them all unprocessed, or throws.  A page that
\* came with a cursor is followed by one more Scan.
SplitNext ==
  \/ DeleteResponse(0, {})
  \/ /\ workers[0].pc = "delWait"
     /\ DeleteResponse(0, workers[0].request.keys)
  \/ DeleteThrow(0)
  \/ BackoffDone(0)
  \/ ScanRecv(0)

SplitSpec == SplitInit /\ [][SplitNext]_vars

\* ---- properties -----------------------------------------------------------
Live(w) == w < responses.parallelSegments

\* C1: in every reachable state the shared counters satisfy
\* deleted <= scanned.
C1_DeletedLeScanned == stats.deleted <= stats.scanned

\* C2: when the retry loop of a batch has ended, the total added to
\* stats.deleted for that batch equals the batch size minus the number of
\* keys still unprocessed after the last attempt.
C2_BatchCreditIsConfirmed ==
  \A w \in Segments :
    LET b == workers[w].lastBatch
    IN b.size > 0 => b.credited = b.size - b.remaining

\* C3: on a dry run whose schema is resolved, no BatchWriteItem call is ever
\* issued, nothing is removed from the table, and the run ends without an
\* error exit and with zero deletions.
C3_DryRunIssuesNoDelete ==
  responses.dryRun =>
    /\ "delete" \notin issued
    /\ table = tableAtStart
    /\ stats.deleted = 0
    /\ \A w \in Segments : workers[w].pc = "idle"
    /\ describeResp = "ok" => phase = "DryRunReported" /\ exitCode = -1

C3_Witness ==
  /\ phase = "DryRunReported"
  /\ responses.dryRun
  /\ responses.parallelSegments = 2
  /\ tableAtStart = Keys

\* C4: no key is ever returned by two scan pages, and when every worker has
\* finished its scan without error every key of the table has been returned
\* exactly once, by the worker of its own segment.
C4_EveryKeyObservedOnce ==
  /\ \A k \in Keys : Len(observed[k]) <= 1
  /\ \A k \in Keys \ tableAtStart : observed[k] = <<>>
  /\ phase = "Completed" =>
       \A k \in tableAtStart :
         observed[k] = <<SegmentOf(k, responses.parallelSegments)>>

C4_Witness ==
  /\ phase = "Completed"
  /\ responses.parallelSegments = 2
  /\ tableAtStart = Keys
  /\ \A k \in Keys : Len(observed[k]) = 1
  /\ observed[1] # observed[2]

\* C5: a batch whose first k attempts (k < MAX_RETRIES) return unprocessed
\* keys and whose attempt k+1 succeeds completely ends with no unprocessed
\* keys and has added exactly the batch size to deleted.
C5_RetriedBatchCreditsItsSize ==
  \A w \in Segments :
    LET b == workers[w].lastBatch
    IN (b.size > 0 /\ ~b.throttled /\ b.remaining = 0
        /\ b.retries < MAX_RETRIES)
       => b.credited = b.size

\* C6 (as stated): the wait before a resubmission is
\* min(backoffCap, BACKOFF_BASE_MS * 2^r), r being the retries made before
\* the wait, so the first wait is BACKOFF_BASE_MS.
C6_WaitIsCappedBackoffOfPriorRetries ==
  \A w \in Segments :
    workers[w].pc = "sleep" =>
      \E cap \in 1..(BACKOFF_BASE_MS * Pow2(MAX_RETRIES)) :
        workers[w].wait =
          Min(cap, BACKOFF_BASE_MS * Pow2(workers[w].retries - 1))

\* C6 (amended): the counter is incremented before the wait and the wait is
\* BACKOFF_BASE_MS * 2^retries for the incremented counter (200 ms for the
\* first retry), without a cap; it never exceeds BACKOFF_BASE_MS * 2^MAX_RETRIES.
C6_WaitIsBackoffOfIncrementedRetries ==
  \A w \in Segments :
    workers[w].pc = "sleep" =>
      /\ workers[w].retries \in 1..MAX_RETRIES
      /\ workers[w].wait = BACKOFF_BASE_MS * Pow2(workers[w].retries)
      /\ workers[w].wait >= 2 * BACKOFF_BASE_MS
      /\ workers[w].wait <= BACKOFF_BASE_MS * Pow2(MAX_RETRIES)

C6_Witness ==
  \E w \in Segments :
    /\ workers[w].pc = "sleep"
    /\ workers[w].retries = MAX_RETRIES
    /\ workers[w].wait = 3200
    /\ workers[w].throttled
    /\ workers[w].credited > 0

\* C7: when the run completes with keys left unprocessed by batches that
\* exhausted their retries (the keys still in the table, every key having
\* been scanned), the final summary states their number, and deleted does
\* not include them.
C7_SummaryStatesUnresolved ==
  (phase = "Completed" /\ table # {}) =>
    /\ "unresolved" \in DOMAIN summary
    /\ summary.unresolved = Cardinality(table)
    /\ summary.deleted <= stats.scanned - Cardinality(table)

\* C8 (as stated): after a non-retryable BatchWriteItem error of one worker
\* the run is not aborted; the siblings keep running.
C8_SiblingsKeepRunning ==
  (\E w \in Segments : workers[w].error = "ValidationException")
    => phase \in {"Running", "Completed"}

\* C8 (amended): after a non-retryable BatchWriteItem error of one worker the
\* whole run is aborted in the same step: the reporter is stopped, no summary
\* is printed, main exits with status 1, and from then on no worker, the
\* failed one or a sibling, issues a call or changes anything.
C8_ErrorAbortsRun ==
  /\ [](\A w \in Segments :
          workers[w].error = "ValidationException" =>
            /\ workers[w].pc = "failed"
            /\ workers[w].request = NoRequest
            /\ phase = "Exited"
            /\ exitCode = 1
            /\ ~progressInterval
            /\ summary = NoSummary
            /\ ~cacheSaved)
  /\ [][(\E w \in Segments : workers[w].pc = "failed") =>
          (workers' = workers /\ issued' = issued /\ table' = table
           /\ stats' = stats)]_vars

C8_Witness ==
  \E w, v \in Segments :
    /\ w # v
    /\ workers[w].error = "ValidationException"
    /\ workers[v].pc \in {"scanWait", "delWait", "sleep"}
    /\ phase = "Exited"

\* C9: a run cancelled from outside while its workers are running ends with
\* a summary of the work done before the cancellation.
C9_CancelledRunPrintsSummary ==
  (phase = "Killed" /\ \E w \in Segments : workers[w].pc # "idle")
    => summary.printed

\* C10: if the store cannot report a key schema, the run aborts with an
\* error before any Scan or BatchWriteItem call is issued and before any
\* worker is spawned.
C10_NoSchemaNoCalls ==
  describeResp \in {"noKeySchema", "ResourceNotFoundException"} =>
    /\ phase = "Exited"
    /\ exitCode = 1
    /\ issued = {"describe"}
    /\ \A w \in Segments : workers[w] = IdleWorker
    /\ ~progressInterval
    /\ table = tableAtStart

C10_Witness ==
  /\ describeResp = "noKeySchema"
  /\ ~responses.dryRun
  /\ responses.confirm
  /\ tableAtStart # {}
  /\ phase = "Exited"

RECURSIVE SumOver(_, _)
SumOver(f, S) ==
  IF S = {} THEN 0
  ELSE LET x == CHOOSE y \in S : TRUE IN f[x] + SumOver(f, S \ {x})

\* C11: no increment of the shared counters is lost: scanned is the sum of
\* the sizes of the pages the workers received and deleted is the sum of
\* the amounts the workers added, in every state and so once all workers
\* have finished.
C11_NoLostIncrement ==
  /\ stats.scanned = SumOver([k \in Keys |-> Len(observed[k])], Keys)
  /\ stats.deleted = SumOver([w \in Segments |-> workers[w].added], Segments)

C11_Witness ==
  /\ phase = "Completed"
  /\ responses.parallelSegments = 2
  /\ \A w \in 0..1 : workers[w].added > 0
  /\ stats.scanned = 2

\* C12: the reporter of a non-dry-run purge is armed only while purgeTable
\* is running: it is stopped when purgeTable returns (all workers done) and
\* when it throws (a worker failed), and no progress line is printed after
\* either.
C12_ReporterStoppedAtEnd ==
  /\ [](/\ progressInterval => phase = "Running"
        /\ phase \in {"Completed", "Exited"} => ~progressInterval
        /\ lastReport.printed => lastReport.during = "Running")
  /\ [][phase # "Running" => lastReport' = lastReport]_vars

C12_Witness ==
  /\ phase = "Exited"
  /\ exitCode = 1
  /\ \E w \in Segments : workers[w].pc = "failed"
  /\ lastReport.printed
  /\ ~progressInterval

\* C13: a throttling error is handled exactly like a response returning the
\* whole submitted key set as unprocessed: same retry counter, same backoff
\* delay, same key set to resubmit, and nothing added to deleted.
C13_ThrottleLikeAllUnprocessed ==
  \A w \in Segments :
    workers[w].pc = "delWait" =>
      LET r == workers[w]
          a == OnBatchError(r, "ProvisionedThroughputExceededException")
          b == OnBatchResponse(r, r.request.keys)
      IN /\ a.pc = b.pc
         /\ a.retries = b.retries
         /\ a.wait = b.wait
         /\ a.unprocessedItems = b.unprocessedItems
         /\ a.added = r.added
         /\ b.added = r.added

\* C14: a non-dry-run purge with parallelSegments = N runs exactly N
\* workers, the worker at position w holding segment id w of 0..N-1, and
\* every scan call of a worker carries its own segment id and the same N.
C14_OneWorkerPerSegment ==
  phase \in {"Running", "Completed"} =>
    LET n == responses.parallelSegments IN
    /\ {w \in Segments : workers[w].pc # "idle"} = 0..(n - 1)
    /\ \A w \in 0..(n - 1) :
         /\ workers[w].segment = w
         /\ workers[w].totalSegments = n
         /\ workers[w].pc = "scanWait" =>
              /\ workers[w].request.kind = "scan"
              /\ workers[w].request.Segment = w
              /\ workers[w].request.TotalSegments = n

C14_Witness ==
  /\ phase = "Running"
  /\ responses.parallelSegments = 2
  /\ workers[0].pc = "delWait"
  /\ workers[1].pc = "scanWait"
  /\ workers[1].request.ExclusiveStartKey # 0

\* C15: a non-dry-run purge reaches a store call only after the user has
\* typed the table name at the confirmation prompt; a confirmation without
\* the matching table name never leads to a delete.
C15_ConfirmedByTableName ==
  ~responses.dryRun =>
    /\ issued # {} => responses.confirmInput = responses.tableName
    /\ responses.confirmInput # responses.tableName => "delete" \notin issued

\* C16: a non-dry-run purge of an empty table sends one Scan per segment and
\* no BatchWriteItem, keeps scanned = 0 and deleted = 0, and once every
\* segment's scan has returned it has completed without an error exit.
C16_EmptyTableCompletes ==
  (tableAtStart = {} /\ ~responses.dryRun) =>
    /\ stats = [scanned |-> 0, deleted |-> 0]
    /\ "delete" \notin issued
    /\ \A w \in Segments :
         /\ workers[w].pc \in {"idle", "scanWait", "done", "failed"}
         /\ workers[w].scans <= 1
    /\ (\A w \in 0..(responses.parallelSegments - 1) : workers[w].pc = "done")
         => phase = "Completed"
    /\ phase = "Completed" =>
         /\ exitCode = -1
         /\ summary = [printed |-> TRUE, deleted |-> 0]
         /\ \A w \in Segments : workers[w].error = "none"

C16_Witness ==
  /\ tableAtStart = {}
  /\ phase = "Completed"
  /\ responses.parallelSegments = 2
  /\ \A w \in 0..1 : workers[w].scans = 1

\* C17: within a segment the first Scan carries no cursor, every later Scan
\* carries the cursor of the response received just before it and is sent
\* only when the last batch of that page has left its retry loop, no Scan is
\* in flight while a batch is pending, and a worker that received an empty
\* cursor is done and sends nothing more.
C17_PagesInCursorOrder ==
  /\ [](\A w \in Segments :
          LET r == workers[w] IN
          /\ r.pc = "scanWait" =>
               /\ r.request.kind = "scan"
               /\ r.request.ExclusiveStartKey = r.scanResponse.LastEvaluatedKey
               /\ r.scans = 1 =>
                    r.request.ExclusiveStartKey = 0 /\ r.scanResponse = NoResponse
               /\ r.scans > 1 =>
                    /\ r.request.ExclusiveStartKey # 0
                    /\ \/ Len(r.scanResponse.Items) = 0
                       \/ /\ r.i + BATCH_SIZE >= Len(r.scanResponse.Items)
                          /\ ~RetryLoopContinues(r.unprocessedItems, r.retries)
          /\ r.pc \in {"delWait", "sleep"} => r.request.kind # "scan"
          /\ r.pc = "done" =>
               r.scanResponse.LastEvaluatedKey = 0 /\ r.request = NoRequest)
  /\ [][\A w \in Segments :
          /\ workers'[w].scans \in {workers[w].scans, workers[w].scans + 1}
          /\ workers[w].pc = "done" => workers'[w] = workers[w]]_vars

C17_Witness ==
  \E w \in Segments :
    /\ workers[w].pc = "scanWait"
    /\ workers[w].scans = 3
    /\ workers[w].request.ExclusiveStartKey = 2
    /\ workers[w].lastBatch.retries = MAX_RETRIES
    /\ workers[w].lastBatch.remaining = 1

RECURSIVE Flatten(_)
Flatten(ss) == IF ss = <<>> THEN <<>> ELSE Head(ss) \o Flatten(Tail(ss))

CeilDiv(n, d) == (n + d - 1) \div d

PageFinished(r) == r.pc = "done" \/ (r.pc = "scanWait" /\ r.scans > 1)

\* C18: a page of n items is cut into ceil(n / BATCH_SIZE) batches, batch b
\* being items (b-1)*25+1 .. min(b*25, n) of the page: at most BATCH_SIZE
\* keys in each first delete request, every key of the page in exactly one
\* batch, batches submitted in page order.
C18_PageSplitIntoBatches ==
  \A w \in Segments :
    LET r == workers[w]
        items == r.scanResponse.Items
        n == Len(items)
        bs == r.batches
    IN /\ Len(bs) <= CeilDiv(n, BATCH_SIZE)
       /\ \A b \in 1..Len(bs) :
            /\ bs[b] = SubSeq(items, (b - 1) * BATCH_SIZE + 1,
                              Min(b * BATCH_SIZE, n))
            /\ Len(bs[b]) \in 1..BATCH_SIZE
       /\ \A j \in 1..Len(Flatten(bs)) : Flatten(bs)[j] = items[j]
       /\ r.pc \in {"delWait", "sleep"} =>
            /\ Len(bs) >= 1
            /\ r.deleteRequests = bs[Len(bs)]
            /\ r.i = (Len(bs) - 1) * BATCH_SIZE
            /\ (r.pc = "delWait" /\ r.retries = 0) =>
                 r.request.keys = Range(bs[Len(bs)])
       /\ PageFinished(r) =>
            /\ Len(bs) = CeilDiv(n, BATCH_SIZE)
            /\ Flatten(bs) = items
            /\ \A j \in 1..n :
                 Cardinality({b \in 1..Len(bs) : items[j] \in Range(bs[b])}) = 1

C18_Witness ==
  /\ workers[0].pc = "done"
  /\ Len(workers[0].scanResponse.Items) = 60
  /\ Len(workers[0].batches) = 3
  /\ Len(workers[0].batches[3]) = 10
  /\ workers[0].lastBatch.throttled

\* C19: every BatchWriteItem request of a batch carries keys of the batch
\* that are still stored; after a response the set to resubmit is exactly
\* the submitted keys the store did not remove (after a throttling error,
\* the submitted set unchanged), and the resubmission carries that set.
C19_ResubmitOnlyUnprocessed ==
  /\ [](\A w \in Segments :
          LET r == workers[w] IN
          /\ r.pc = "delWait" =>
               /\ r.request.kind = "delete"
               /\ r.request.keys # {}
               /\ r.request.keys = r.unprocessedItems
               /\ r.request.keys \subseteq Range(r.deleteRequests)
               /\ r.request.keys \subseteq table
          /\ r.pc = "sleep" =>
               /\ r.unprocessedItems # {}
               /\ r.unprocessedItems \subseteq Range(r.deleteRequests)
               /\ r.unprocessedItems \subseteq table)
  /\ [][\A w \in Segments :
          /\ (workers[w].pc = "delWait" /\ workers'[w].pc = "sleep") =>
               /\ workers'[w].unprocessedItems \subseteq workers[w].request.keys
               /\ workers'[w].unprocessedItems = workers[w].request.keys \cap table'
          /\ (workers[w].pc = "sleep" /\ workers'[w].pc = "delWait") =>
               /\ workers'[w].request.keys = workers[w].unprocessedItems
               /\ workers'[w].deleteRequests = workers[w].deleteRequests]_vars

C19_Witness ==
  \E w \in Segments :
    /\ workers[w].pc = "delWait"
    /\ workers[w].retries = 2
    /\ workers[w].throttled
    /\ Len(workers[w].deleteRequests) = 2
    /\ Cardinality(workers[w].request.keys) = 1

\* C20 (as stated): the reporter is stopped and the run leaves Running only
\* when every one of the N workers has finished.
C20_LeavesRunningWhenAllFinished ==
  (phase \in {"Completed", "Exited"} /\ \E w \in Segments : workers[w].pc # "idle")
    => \A w \in 0..(responses.parallelSegments - 1) :
         workers[w].pc \in {"done", "failed"}

\* C20 (amended): the run completes, with the reporter stopped and the
\* summary printed, only when all N workers are done; it also leaves Running
\* as soon as one worker fails, with the reporter stopped, no summary and
\* exit status 1, whatever the siblings were doing; after either end no
\* worker sends a call or changes anything.
C20_JoinOrAbort ==
  /\ [](LET n == responses.parallelSegments IN
        /\ phase = "Completed" =>
             /\ \A w \in 0..(n - 1) : workers[w].pc = "done"
             /\ ~progressInterval
             /\ summary.printed
        /\ summary.printed => phase = "Completed"
        /\ (phase = "Exited" /\ \E w \in Segments : workers[w].pc # "idle") =>
             /\ \E w \in 0..(n - 1) : workers[w].pc = "failed"
             /\ ~progressInterval
             /\ exitCode = 1
        /\ phase = "Running" =>
             /\ progressInterval
             /\ \A w \in 0..(n - 1) : workers[w].pc # "failed"
             /\ \E w \in 0..(n - 1) : workers[w].pc # "done")
  /\ [][(phase = "Completed" \/ phase = "Exited") =>
          (workers' = workers /\ issued' = issued /\ table' = table
           /\ stats' = stats /\ summary' = summary)]_vars

C20_Witness ==
  /\ phase = "Completed"
  /\ responses.parallelSegments = 2
  /\ \A w \in 0..1 : workers[w].pc = "done" /\ workers[w].added > 0
  /\ summary.printed

C22_RetryLoopTerminates ==
  /\ [](\A w \in Segments :
          /\ workers[w].attempts <= MAX_RETRIES
          /\ workers[w].retries <= MAX_RETRIES
          /\ workers[w].pc = "delWait" =>
               workers[w].attempts = workers[w].retries + 1
          /\ workers[w].lastBatch.attempts <= MAX_RETRIES)
  /\ \A w \in Segments :
       (workers[w].pc \in {"scanWait", "delWait", "sleep"})
         ~> (workers[w].pc = "done" \/ phase \in {"Exited", "Killed"})
  /\ (phase = "Running") ~> (phase \in {"Completed", "Exited", "Killed"})

C22_Witness ==
  /\ phase = "Completed"
  /\ responses.parallelSegments = 2
  /\ \E w \in 0..1 :
       /\ workers[w].lastBatch.attempts = MAX_RETRIES
       /\ workers[w].lastBatch.remaining > 0
       /\ workers[w].lastBatch.throttled

\* C23: once the prompts are answered with a non-dry-run purge that is not
\* confirmed, main sends no store call at all, starts no worker, leaves the
\* table alone and does not write the cached choices; the cached choices are
\* written only after purgeTable has returned without error, that is after
\* a dry-run report or a completed purge.
C23_DeclinedPurgeTouchesNothing ==
  /\ (phase # "Prompt" /\ ~responses.dryRun /\ ~responses.confirm) =>
       /\ phase = "Declined" \/ (phase = "Exited" /\ exitCode = 0)
       /\ issued = {}
       /\ describeResp = "none"
       /\ \A w \in Segments : workers[w] = IdleWorker
       /\ table = tableAtStart
       /\ stats = [scanned |-> 0, deleted |-> 0]
       /\ ~cacheSaved
  /\ cacheSaved =>
       /\ phase \in {"DryRunReported", "Completed"}
       /\ responses.dryRun \/ responses.confirm
       /\ describeResp = "ok"
       /\ exitCode = -1
       /\ \A w \in Segments : workers[w].pc \in {"idle", "done"}
       /\ phase = "Completed" => summary.printed
  /\ phase \in {"Prompt", "Describe", "Running", "Exited", "Killed"}
       => ~cacheSaved

C23_Witness ==
  /\ phase = "Declined"
  /\ ~responses.dryRun
  /\ ~responses.confirm
  /\ responses.parallelSegments = 2
  /\ tableAtStart = Keys
  /\ ~cacheSaved

====
